---- MODULE Spec2Model ----
(***************************************************************************)
(* Weather-Prediction-App: the five-year historical aggregation engine.    *)
(*                                                                         *)
(* Quantities (degrees F, mph, inches) are fixed-point integers counting   *)
(* hundredths: 90 F is 9000, 0.5 inch is 50.  Every observation of the     *)
(* archive is a multiple of 0.05, so the mean of five observations is an   *)
(* exact number of hundredths and the floating-point rounding of pandas    *)
(* is not part of the model.                                               *)
(***************************************************************************)
EXTENDS Integers, Sequences, FiniteSets, TLC

VARIABLES
    analysis_complete,  \* st.session_state.analysis_complete
    weather_data,       \* st.session_state.weather_data (None or the summary dict)
    metrics,            \* st.session_state.metrics (None or the WeatherMetrics object)
    session_coords,     \* st.session_state.latitude / longitude (None until a lookup succeeds)
    lookup,             \* outcome of the latest "Get Coordinates" lookup of the session
    db,                 \* rows of table weather_data in weather.db
    cache,              \* the requests_cache store '.cache': request key -> cached response
    last,               \* what the latest script run did (observation record)
    probe               \* the latest direct call of a pure function, with its result

vars == <<analysis_complete, weather_data, metrics, session_coords, lookup,
          db, cache, last, probe>>

appVars == <<analysis_complete, weather_data, metrics, session_coords, lookup,
             db, cache, last>>

\* Optional values: None is the empty tuple, a present value x is <<x>>
None == <<>>
Some(x) == <<x>>
Is(opt) == opt # <<>>
The(opt) == opt[1]

----------------------------------------------------------------------------
(* utils.py                                                                *)

\* calendar.isleap(year) of the standard library
isleap(year) ==
    year % 4 = 0 /\ (year % 100 # 0 \/ year % 400 = 0)

\* validate_date with the upper year bound excluded
validate_date_year_exclusive(month, day, year) ==
    /\ 1 <= month /\ month <= 12
    /\ 1940 <= year /\ year < 2030
    /\ 1 <= day
    /\ day <= (IF month \in {1, 3, 5, 7, 8, 10, 12} THEN 31
               ELSE IF month \in {4, 6, 9, 11} THEN 30
               ELSE IF year % 4 = 0 /\ (year % 100 # 0 \/ year % 400 = 0) THEN 29
               ELSE 28)

\* validate_date(month, day, year) for integer arguments
validate_date(month, day, year) ==
    IF ~(1 <= month /\ month <= 12) THEN FALSE
    ELSE IF ~(1940 <= year /\ year <= 2030) THEN FALSE
    ELSE IF month \in {1, 3, 5, 7, 8, 10, 12} THEN
        IF ~(1 <= day /\ day <= 31) THEN FALSE ELSE TRUE
    ELSE IF month \in {4, 6, 9, 11} THEN
        IF ~(1 <= day /\ day <= 30) THEN FALSE ELSE TRUE
    ELSE IF isleap(year) THEN
        IF ~(1 <= day /\ day <= 29) THEN FALSE ELSE TRUE
    ELSE
        IF ~(1 <= day /\ day <= 28) THEN FALSE ELSE TRUE

\* Arguments as Python values: a type name, and for a number twice its
\* value (so that halves are integers).  Comparing a str or None with an int
\* raises TypeError; int and float compare by value.
PyInt(n) == [type |-> "int", twice |-> 2 * n]
PyHalf(twice) == [type |-> "float", twice |-> twice]
PyStr == [type |-> "str", twice |-> 0]
PyNone == [type |-> "NoneType", twice |-> 0]

IsNumber(x) == x.type \in {"int", "float"}

\* 1 <= x <= hi on a number
Within(x, hi) == 2 <= x.twice /\ x.twice <= 2 * hi

\* validate_date(month, day, year) on any arguments: the body of the try,
\* statement by statement, and the except branch that returns False
validate_date_any(month, day, year) ==
    IF ~IsNumber(month) THEN [value |-> FALSE, caught |-> TRUE]
    ELSE IF ~Within(month, 12) THEN [value |-> FALSE, caught |-> FALSE]
    ELSE IF ~IsNumber(year) THEN [value |-> FALSE, caught |-> TRUE]
    ELSE IF ~(2 * 1940 <= year.twice /\ year.twice <= 2 * 2030) THEN
        [value |-> FALSE, caught |-> FALSE]
    ELSE IF month.twice \in {2 * m : m \in {1, 3, 5, 7, 8, 10, 12}} THEN
        IF ~IsNumber(day) THEN [value |-> FALSE, caught |-> TRUE]
        ELSE [value |-> Within(day, 31), caught |-> FALSE]
    ELSE IF month.twice \in {2 * m : m \in {4, 6, 9, 11}} THEN
        IF ~IsNumber(day) THEN [value |-> FALSE, caught |-> TRUE]
        ELSE [value |-> Within(day, 30), caught |-> FALSE]
    ELSE IF year.twice % 8 = 0
            /\ (year.twice % 200 # 0 \/ year.twice % 800 = 0) THEN
        IF ~IsNumber(day) THEN [value |-> FALSE, caught |-> TRUE]
        ELSE [value |-> Within(day, 29), caught |-> FALSE]
    ELSE
        IF ~IsNumber(day) THEN [value |-> FALSE, caught |-> TRUE]
        ELSE [value |-> Within(day, 28), caught |-> FALSE]

\* max(0, score)
max0(score) == IF score > 0 THEN score ELSE 0

\* the score with the lowest wind tier (> 10 mph) left out
suitability_score_two_wind_tiers(wd) ==
    max0(100
         - (IF wd.avg_temp < 6000 \/ wd.avg_temp > 9000 THEN 30
            ELSE IF wd.avg_temp < 7000 \/ wd.avg_temp > 8000 THEN 15 ELSE 0)
         - (IF wd.max_wind > 2500 THEN 25
            ELSE IF wd.max_wind > 1500 THEN 15 ELSE 0)
         - (IF wd.sum_precip > 100 THEN 20
            ELSE IF wd.sum_precip > 50 THEN 10
            ELSE IF wd.sum_precip > 10 THEN 5 ELSE 0))

\* the score with the precipitation deduction added instead of subtracted
suitability_score_adds_precip(wd) ==
    max0(100
         - (IF wd.avg_temp < 6000 \/ wd.avg_temp > 9000 THEN 30
            ELSE IF wd.avg_temp < 7000 \/ wd.avg_temp > 8000 THEN 15 ELSE 0)
         - (IF wd.max_wind > 2500 THEN 25
            ELSE IF wd.max_wind > 1500 THEN 15
            ELSE IF wd.max_wind > 1000 THEN 10 ELSE 0)
         + (IF wd.sum_precip > 100 THEN 20
            ELSE IF wd.sum_precip > 50 THEN 10
            ELSE IF wd.sum_precip > 10 THEN 5 ELSE 0))

\* calculate_weather_suitability_score(weather_data)
calculate_weather_suitability_score(wd) ==
    LET afterTemp ==
            IF wd.avg_temp < 6000 \/ wd.avg_temp > 9000 THEN 100 - 30
            ELSE IF wd.avg_temp < 7000 \/ wd.avg_temp > 8000 THEN 100 - 15
            ELSE 100
        afterWind ==
            IF wd.max_wind > 2500 THEN afterTemp - 25
            ELSE IF wd.max_wind > 1500 THEN afterTemp - 15
            ELSE IF wd.max_wind > 1000 THEN afterTemp - 10
            ELSE afterTemp
        afterPrecip ==
            IF wd.sum_precip > 100 THEN afterWind - 20
            ELSE IF wd.sum_precip > 50 THEN afterWind - 10
            ELSE IF wd.sum_precip > 10 THEN afterWind - 5
            ELSE afterWind
    IN  max0(afterPrecip)

----------------------------------------------------------------------------
(* app.py: calculate_weather_risk                                          *)

\* the risk level with the 90 F threshold inclusive
weather_risk_inclusive_temp(wd) ==
    LET risk_factors ==
            (IF wd.max_temp >= 9000 THEN 2
             ELSE IF wd.max_temp > 8500 THEN 1 ELSE 0)
            + (IF wd.max_wind > 2500 THEN 2
               ELSE IF wd.max_wind > 1500 THEN 1 ELSE 0)
            + (IF wd.sum_precip > 100 THEN 2
               ELSE IF wd.sum_precip > 50 THEN 1 ELSE 0)
    IN  IF risk_factors >= 4 THEN
            [level |-> "High", description |-> "Consider indoor alternatives"]
        ELSE IF risk_factors >= 2 THEN
            [level |-> "Medium", description |-> "Have backup plans ready"]
        ELSE
            [level |-> "Low", description |-> "Good conditions expected"]

calculate_weather_risk(wd) ==
    LET tempRisk ==
            IF wd.max_temp > 9000 THEN 2
            ELSE IF wd.max_temp > 8500 THEN 1
            ELSE 0
        windRisk ==
            IF wd.max_wind > 2500 THEN 2
            ELSE IF wd.max_wind > 1500 THEN 1
            ELSE 0
        precipRisk ==
            IF wd.sum_precip > 100 THEN 2
            ELSE IF wd.sum_precip > 50 THEN 1
            ELSE 0
        risk_factors == tempRisk + windRisk + precipRisk
    IN  IF risk_factors >= 4 THEN
            [level |-> "High", description |-> "Consider indoor alternatives"]
        ELSE IF risk_factors >= 2 THEN
            [level |-> "Medium", description |-> "Have backup plans ready"]
        ELSE
            [level |-> "Low", description |-> "Good conditions expected"]

----------------------------------------------------------------------------
(* weather_metrics.py: the reductions of fill_out_class                    *)

\* one column of the DataFrame built by get_data_for_date
Column(data, name) == [i \in DOMAIN data |-> data[i][name]]

RECURSIVE SeqSum(_)
SeqSum(s) == IF s = <<>> THEN 0 ELSE Head(s) + SeqSum(Tail(s))

\* a minimum that looks at the two ends of the column only
SeqMinOfEnds(s) == IF s[1] < s[Len(s)] THEN s[1] ELSE s[Len(s)]

RECURSIVE SeqMin(_)
SeqMin(s) ==
    IF Len(s) = 1 THEN Head(s)
    ELSE LET m == SeqMin(Tail(s)) IN IF Head(s) < m THEN Head(s) ELSE m

RECURSIVE SeqMax(_)
SeqMax(s) ==
    IF Len(s) = 1 THEN Head(s)
    ELSE LET m == SeqMax(Tail(s)) IN IF Head(s) > m THEN Head(s) ELSE m

\* pandas Series.mean(); exact here, see the note at the top of the module
SeqMean(s) == SeqSum(s) \div Len(s)

calc_avg_temp(data) == SeqMean(Column(data, "temperature_2m_mean"))

\* the maximum wind read from the gust column
wind_speed_max_from_gusts(data) == SeqMax(Column(data, "wind_gusts_10m_max"))

calc_wind_speed_max(data) == SeqMax(Column(data, "wind_speed_10m_max"))

calc_total_precip(data) == SeqSum(Column(data, "precipitation_sum"))

\* the nine assignments of fill_out_class, given the series it fetched
Summarize(data) ==
    [avg_temp   |-> calc_avg_temp(data),
     min_temp   |-> SeqMin(Column(data, "temperature_2m_min")),
     max_temp   |-> SeqMax(Column(data, "temperature_2m_max")),
     avg_wind   |-> SeqMean(Column(data, "wind_speed_10m_max")),
     min_wind   |-> SeqMin(Column(data, "wind_speed_10m_max")),
     max_wind   |-> calc_wind_speed_max(data),
     sum_precip |-> calc_total_precip(data),
     min_precip |-> SeqMin(Column(data, "precipitation_sum")),
     max_precip |-> SeqMax(Column(data, "precipitation_sum"))]

----------------------------------------------------------------------------
(* The upstream archive and the cached, retrying HTTP session              *)

\* datetime.now().year, read by get_data_for_date
CurrentYear == 2025

\* calendar rule of the datetime(year, month, day) constructor
DaysInMonth(year, month) ==
    IF month \in {1, 3, 5, 7, 8, 10, 12} THEN 31
    ELSE IF month \in {4, 6, 9, 11} THEN 30
    ELSE IF isleap(year) THEN 29 ELSE 28

\* a constructor that accepts day 29 to 31 in every month
IsCalendarDateLenient(year, month, day) ==
    /\ 1 <= month /\ month <= 12
    /\ 1 <= day /\ day <= 31

\* datetime(year, month, day) raises ValueError unless this holds
IsCalendarDate(year, month, day) ==
    /\ 1 <= month /\ month <= 12
    /\ 1 <= day /\ day <= DaysInMonth(year, month)

NextDay(date) ==
    IF date.day < DaysInMonth(date.year, date.month)
        THEN [date EXCEPT !.day = date.day + 1]
    ELSE IF date.month < 12
        THEN [date EXCEPT !.month = date.month + 1, !.day = 1]
    ELSE [year |-> date.year + 1, month |-> 1, day |-> 1]

\* What the archive holds for one calendar day (historical data does not
\* change): one value per requested daily variable, in fahrenheit, mph, inch.
Observation(date) ==
    LET k == (date.year % 5) + 1
        shift == 5 * ((date.day + 1) % 6)
    IN  [date |-> date,
         temperature_2m_max  |-> <<8800, 9100, 7900, 8600, 9050>>[k] + shift,
         temperature_2m_min  |-> <<6100, 6500, 5500, 5900, 6300>>[k] + shift,
         temperature_2m_mean |-> <<7000, 7200, 7400, 7100, 7300>>[k] + shift,
         precipitation_sum   |-> <<0, 20, 0, 55, 5>>[k],
         wind_speed_10m_max  |-> <<800, 1200, 1650, 950, 1100>>[k] + shift,
         wind_gusts_10m_max  |-> <<3000, 2000, 1300, 2600, 1800>>[k] + shift]

\* the daily_data of a response that holds `days` days starting at `date`
DailyData(date, days) ==
    IF days = 0 THEN <<>>
    ELSE IF days = 1 THEN <<Observation(date)>>
    ELSE <<Observation(date), Observation(NextDay(date))>>

\* What the upstream does with one request that reaches it: "error" when the
\* retries are exhausted, else the number of days its response holds.
UpstreamOutcomes == {"error", "days0", "days1", "days2"}

DaysOf(outcome) ==
    IF outcome = "days0" THEN 0 ELSE IF outcome = "days1" THEN 1 ELSE 2

\* call_api on a session that never reads its cache store
call_api_uncached(latlon, date, outcome, c) ==
    IF outcome = "error" THEN
        [ok |-> FALSE, daily_data |-> <<>>, cache |-> c, upstream |-> TRUE]
    ELSE
        [ok |-> TRUE, daily_data |-> DailyData(date, DaysOf(outcome)),
         cache |-> [k \in DOMAIN c \cup {<<latlon, date.year, date.month, date.day>>} |->
                       IF k = <<latlon, date.year, date.month, date.day>>
                           THEN DaysOf(outcome) ELSE c[k]],
         upstream |-> TRUE]

\* call_api(start_date, end_date) with start_date = end_date = date, against
\* the cache store c; `outcome` is the upstream's answer if it is asked.  The
\* store keeps, per request, the number of days of the response it cached:
\* the days themselves are the archive's.
call_api(latlon, date, outcome, c) ==
    LET key == <<latlon, date.year, date.month, date.day>>
    IN  IF key \in DOMAIN c THEN
            [ok |-> TRUE, daily_data |-> DailyData(date, c[key]), cache |-> c,
             upstream |-> FALSE]
        ELSE IF outcome = "error" THEN
            [ok |-> FALSE, daily_data |-> <<>>, cache |-> c,
             upstream |-> TRUE]
        ELSE
            [ok |-> TRUE, daily_data |-> DailyData(date, DaysOf(outcome)),
             cache |-> c @@ (key :> DaysOf(outcome)),
             upstream |-> TRUE]

\* the loop counting up from the oldest year
LoopYearsOldestFirst == [i \in 1..5 |-> CurrentYear - 6 + i]

\* the years of the loop of get_data_for_date, in the order it visits them
LoopYears == [i \in 1..5 |-> CurrentYear - i]

\* get_data_for_date: the loop from its i-th iteration on.  acc carries the
\* columns appended so far, the cache store, and a log of the calls made.
RECURSIVE get_data_loop(_, _, _, _, _, _)
get_data_loop(i, latlon, month, day, up, acc) ==
    IF i > Len(LoopYears) THEN acc
    ELSE IF ~IsCalendarDate(LoopYears[i], month, day) THEN
        [acc EXCEPT !.error = "ValueError"]
    ELSE
        LET date == [year |-> LoopYears[i], month |-> month, day |-> day]
            r == call_api(latlon, date, up[i], acc.cache)
            entry == [latlon |-> latlon, date |-> date,
                      upstream |-> r.upstream, ok |-> r.ok,
                      days |-> Len(r.daily_data)]
        IN  IF ~r.ok THEN
                [acc EXCEPT !.error = "FetchError",
                            !.calls = Append(@, entry)]
            ELSE IF Len(r.daily_data) = 0 THEN
                [acc EXCEPT !.error = "IndexError",
                            !.cache = r.cache,
                            !.calls = Append(@, entry)]
            ELSE
                get_data_loop(i + 1, latlon, month, day, up,
                    [acc EXCEPT !.data = Append(@, r.daily_data[1]),
                                !.cache = r.cache,
                                !.calls = Append(@, entry)])

get_data_for_date(latlon, month, day, up, c) ==
    get_data_loop(1, latlon, month, day, up,
        [data |-> <<>>, cache |-> c, calls |-> <<>>, error |-> "none"])

----------------------------------------------------------------------------
(* weather_sql.py                                                          *)

\* commits is whether session.commit() goes through.
\* an insert whose failed commit leaves the row in the table
insert_data_keeps_failed_row(rows, data, commits) ==
    [rows |-> Append(rows, [id |-> Len(rows) + 1, data |-> data]),
     raised |-> ~commits, closed |-> TRUE]

\* DatabaseHandler.insert_data(data): session.add puts the row in the
\* session; commit writes it with the next autoincrement id, or raises, and
\* then rollback drops it and the error is raised again; finally closes.
insert_data(rows, data, commits) ==
    LET pending == <<[id |-> Len(rows) + 1, data |-> data]>>
    IN  IF commits THEN
            [rows |-> rows \o pending, raised |-> FALSE, closed |-> TRUE]
        ELSE
            [rows |-> rows, raised |-> TRUE, closed |-> TRUE]

----------------------------------------------------------------------------
(* app.py: one action per script run.  A run handles at most one button    *)
(* and then draws the main content area.                                   *)

\* rows the record store may hold before the model stops analysing
MaxRows == 2

\* coordinates a lookup or the manual inputs can yield
Coords == {"A"}

\* (month, day, year) triples offered to the "Analyze" handler.  The last
\* two fail validate_date; they are offered so that the handler's rejecting
\* branch is exercised.
TargetDates == {<<6, 23, 2025>>, <<2, 29, 2024>>, <<2, 29, 2023>>, <<6, 23, 1939>>}

Methods == {"search", "manual"}

KeyOf(latlon, i, month, day) == <<latlon, LoopYears[i], month, day>>

\* The upstream's answers to the five requests of one get_data_for_date, as
\* a sequence indexed like the loop.  A request that is never sent (the loop
\* stopped before it) or that the cache serves has the fixed answer "days1".
Days1From(i) == [j \in 1..(5 - i + 1) |-> "days1"]

AllDays1 == Days1From(1)

RECURSIVE AnswersFrom(_, _, _, _, _)
AnswersFrom(i, latlon, month, day, c) ==
    IF i > 5 THEN {<<>>}
    ELSE IF ~IsCalendarDate(LoopYears[i], month, day) THEN {Days1From(i)}
    ELSE IF KeyOf(latlon, i, month, day) \in DOMAIN c THEN
        IF c[KeyOf(latlon, i, month, day)] = 0 THEN {Days1From(i)}
        ELSE {<<"days1">> \o t : t \in AnswersFrom(i + 1, latlon, month, day, c)}
    ELSE
        {<<o>> \o Days1From(i + 1) : o \in {"error", "days0"}}
        \cup {<<o>> \o t : o \in {"days1", "days2"},
                           t \in AnswersFrom(i + 1, latlon, month, day, c)}

\* the answers the upstream can give to get_data_for_date(latlon, month, day)
\* when the cache store is c
Answers(latlon, month, day, c) == AnswersFrom(1, latlon, month, day, c)

\* WeatherMetrics(latitude, longitude, month, day, year) after fill_out_class
MetricsObject(latlon, target, summary) ==
    [latlon |-> latlon, month |-> target[1], day |-> target[2],
     year |-> target[3], summary |-> summary]

\* The session and stores as the handler of a run leaves them, with what
\* the handler did: h.calls are its call_api calls, h.data the series it
\* assembled, h.summary the summary it computed (None if it computed none).
Untouched(outcome) ==
    [analysis_complete |-> analysis_complete, weather_data |-> weather_data,
     metrics |-> metrics, db |-> db, cache |-> cache,
     outcome |-> outcome, calls |-> <<>>, data |-> <<>>, summary |-> None,
     store |-> None]

\* run_weather_analysis going on with the samples fetched before a failure
run_weather_analysis_partial(latlon, target, up, commits) ==
    LET g == get_data_for_date(latlon, target[1], target[2], up, cache)
    IN  IF g.data = <<>> THEN
            [Untouched(g.error) EXCEPT !.cache = g.cache, !.calls = g.calls]
        ELSE
            LET m == MetricsObject(latlon, target, Summarize(g.data))
                ins == insert_data(db, m, commits)
            IN  IF ins.raised THEN
                    [Untouched("PersistenceError") EXCEPT
                        !.db = ins.rows,
                        !.cache = g.cache, !.calls = g.calls,
                        !.data = g.data, !.summary = Some(m.summary),
                        !.store = Some([raised |-> ins.raised,
                                        closed |-> ins.closed])]
                ELSE
                    [analysis_complete |-> TRUE,
                     weather_data |-> Some(m), metrics |-> Some(m),
                     db |-> ins.rows, cache |-> g.cache,
                     outcome |-> IF g.error = "none" THEN "AnalysisComplete"
                                 ELSE g.error,
                     calls |-> g.calls, data |-> g.data,
                     summary |-> Some(m.summary),
                     store |-> Some([raised |-> ins.raised,
                                     closed |-> ins.closed])]

\* run_weather_analysis(latitude, longitude, target_date)
run_weather_analysis(latlon, target, up, commits) ==
    LET g == get_data_for_date(latlon, target[1], target[2], up, cache)
    IN  IF g.error # "none" THEN
            \* WeatherMetrics(...) raised: the except branch reports it
            [Untouched(g.error) EXCEPT !.cache = g.cache, !.calls = g.calls,
                                       !.data = g.data]
        ELSE
            LET summary == Summarize(g.data)
                m == MetricsObject(latlon, target, summary)
                ins == insert_data(db, m, commits)
            IN  IF ins.raised THEN
                    [Untouched("PersistenceError") EXCEPT
                        !.db = ins.rows,
                        !.cache = g.cache, !.calls = g.calls,
                        !.data = g.data, !.summary = Some(summary),
                        !.store = Some([raised |-> ins.raised,
                                        closed |-> ins.closed])]
                ELSE
                    [analysis_complete |-> TRUE,
                     weather_data |-> Some(m),
                     metrics |-> Some(m),
                     db |-> ins.rows, cache |-> g.cache,
                     outcome |-> "AnalysisComplete",
                     calls |-> g.calls, data |-> g.data,
                     summary |-> Some(summary),
                     store |-> Some([raised |-> ins.raised,
                                     closed |-> ins.closed])]

\* The main content area, lines 114-142: display_analysis_results redraws the
\* charts from metrics.get_data_for_date(), outside any try.
Draws(h) == h.analysis_complete /\ Is(h.weather_data)

RenderCalls(h, upR) ==
    IF Draws(h) THEN
        LET m == The(h.metrics)
        IN  get_data_for_date(m.latlon, m.month, m.day, upR, h.cache)
    ELSE [data |-> <<>>, cache |-> h.cache, calls |-> <<>>, error |-> "none"]

RenderAnswers(h) ==
    IF Draws(h) THEN
        LET m == The(h.metrics)
        IN  Answers(m.latlon, m.month, m.day, h.cache)
    ELSE {AllDays1}

\* A whole script run: the handler's result h, then the main content area.
\* (After st.rerun() the main content area is drawn by the run it starts.)
ScriptRun(kind, method, target, valid, handled) ==
    \E h \in {handled} : \E upR \in RenderAnswers(h) :
    \E r \in {RenderCalls(h, upR)} :
        /\ analysis_complete' = h.analysis_complete
        /\ weather_data' = h.weather_data
        /\ metrics' = h.metrics
        /\ db' = h.db
        /\ cache' = r.cache
        /\ last' = [kind |-> kind, method |-> method, target |-> target,
                    valid |-> valid, outcome |-> h.outcome,
                    calls |-> h.calls, data |-> h.data,
                    summary |-> h.summary, store |-> h.store,
                    drawn |-> Draws(h), render_calls |-> r.calls,
                    render_data |-> r.data, render_error |-> r.error]
        /\ UNCHANGED probe

AppInit ==
    /\ analysis_complete = FALSE
    /\ weather_data = None
    /\ metrics = None
    /\ session_coords = None
    /\ lookup = "never"
    /\ db = <<>>
    /\ cache = <<>>
    /\ last = [kind |-> "start", method |-> "search", target |-> <<>>,
               valid |-> FALSE, outcome |-> "none", calls |-> <<>>,
               data |-> <<>>, summary |-> None, store |-> None,
               drawn |-> FALSE,
               render_calls |-> <<>>, render_data |-> <<>>,
               render_error |-> "none"]

Init ==
    /\ AppInit
    /\ probe = [fn |-> "none", args |-> <<>>, done |-> TRUE]

\* "Get Coordinates" (search method): found is what
\* get_coordinates_from_location returned, None or coordinates.
GetCoordinates(found) ==
    /\ IF Is(found)
           THEN /\ session_coords' = found
                /\ lookup' = "found"
           ELSE /\ session_coords' = session_coords
                /\ lookup' = "not_found"
    /\ ScriptRun("lookup", "search", <<>>, FALSE,
                 Untouched(IF Is(found) THEN "Found" ELSE "LocationNotFound"))

\* the handler without the validate_date gate
AnalyzeUnvalidated(method, manual, target) ==
    LET latlon == IF method = "search" THEN session_coords ELSE Some(manual)
        valid == validate_date(target[1], target[2], target[3])
    IN  /\ Len(db) < MaxRows
        /\ UNCHANGED <<session_coords, lookup>>
        /\ IF ~Is(latlon) THEN
               ScriptRun("analyze", method, target, FALSE,
                         Untouched("MissingCoordinates"))
           ELSE
               \E up \in Answers(The(latlon), target[1], target[2], cache),
                  commits \in BOOLEAN :
                   ScriptRun("analyze", method, target, valid,
                       run_weather_analysis(The(latlon), target, up, commits))

\* "Analyze Weather Data"
Analyze(method, manual, target) ==
    LET latlon == IF method = "search" THEN session_coords ELSE Some(manual)
        valid == validate_date(target[1], target[2], target[3])
    IN  /\ Len(db) < MaxRows
        /\ UNCHANGED <<session_coords, lookup>>
        /\ IF ~Is(latlon) THEN
               ScriptRun("analyze", method, target, FALSE,
                         Untouched("MissingCoordinates"))
           ELSE IF ~valid THEN
               ScriptRun("analyze", method, target, valid,
                         Untouched("InvalidDate"))
           ELSE
               \E up \in Answers(The(latlon), target[1], target[2], cache),
                  commits \in BOOLEAN :
                   ScriptRun("analyze", method, target, valid,
                       run_weather_analysis(The(latlon), target, up, commits))

\* "View Stored Data": show_database_records reads the table
ViewStoredData ==
    /\ UNCHANGED <<session_coords, lookup>>
    /\ ScriptRun("view", "search", <<>>, FALSE, Untouched("Shown"))

\* a reset that clears the two results and leaves the flag set
StartNewAnalysisKeepsFlag ==
    /\ analysis_complete /\ Is(weather_data)
    /\ UNCHANGED <<session_coords, lookup>>
    /\ ScriptRun("reset", "search", <<>>, FALSE,
                 [Untouched("Reset") EXCEPT !.weather_data = None,
                                            !.metrics = None])

\* "Start New Analysis", offered by display_analysis_results
StartNewAnalysis ==
    /\ analysis_complete /\ Is(weather_data)
    /\ UNCHANGED <<session_coords, lookup>>
    /\ ScriptRun("reset", "search", <<>>, FALSE,
                 [Untouched("Reset") EXCEPT !.analysis_complete = FALSE,
                                            !.weather_data = None,
                                            !.metrics = None])

Next ==
    \/ \E found \in {None} \cup {Some(c) : c \in Coords} :
          GetCoordinates(found)
    \/ \E method \in Methods, manual \in Coords, target \in TargetDates :
          Analyze(method, manual, target)
    \/ ViewStoredData
    \/ StartNewAnalysis

Spec == Init /\ [][Next]_vars

----------------------------------------------------------------------------
(* Direct calls of the pure functions, on inputs around every threshold    *)

DateMonths == 0..13
DateDays == 0..32
DateYears == {1900, 1939, 1940, 2000, 2023, 2024, 2030, 2031, 2100}

RiskTemps == {8000, 8500, 8505, 9000, 9005, 9100, 9500}
RiskWinds == {500, 1000, 1500, 1505, 2500, 2505, 3000}
RiskPrecips == {0, 20, 50, 55, 100, 105, 150}

ScoreTemps == {5500, 5995, 6000, 6995, 7000, 7500, 8000, 8005, 9000, 9005}
ScoreWinds == {500, 1000, 1005, 1500, 1505, 2500, 2505, 3000}
ScorePrecips == {0, 10, 15, 50, 55, 100, 105, 120}

\* malformed and well-formed arguments of validate_date
AnyMonths == {PyInt(m) : m \in {0, 1, 2, 4, 12, 13}}
                 \cup {PyHalf(5), PyHalf(9), PyStr, PyNone}
AnyDays == {PyInt(d) : d \in {0, 1, 28, 29, 30, 31, 32}}
               \cup {PyHalf(3), PyHalf(57), PyStr, PyNone}
AnyYears == {PyInt(y) : y \in {1939, 1940, 2023, 2024, 2030, 2031}}
                \cup {PyHalf(4049), PyStr, PyNone}

\* the samples a series is drawn from: the archive's June 23 of five years
SeriesSamples ==
    {Observation([year |-> y, month |-> 6, day |-> 23]) : y \in 2020..2024}

\* retry(cache_session, retries = 5, backoff_factor = 0.2): the number of
\* retries the session allows one request after its first attempt
Retries == 5

\* transient failures the upstream may answer one request with, at most
MaxTransient == 7

\* a session that retries without counting
RetryNeverGivesUp(retried) == FALSE

\* the session gives up when a failed attempt finds the retries used up
RetryGivesUp(retried) == retried >= Retries

\* the calls to make: the function and its arguments, not yet applied
PureCalls ==
    {[fn |-> "validate_date", args |-> <<month, day, year>>, done |-> FALSE] :
        month \in DateMonths, day \in DateDays, year \in DateYears}
    \cup
    {[fn |-> "calculate_weather_risk", args |-> <<t, w, p>>, done |-> FALSE] :
        t \in RiskTemps, w \in RiskWinds, p \in RiskPrecips}
    \cup
    {[fn |-> "calculate_weather_suitability_score", args |-> <<t, w, p>>,
      done |-> FALSE] :
        t \in ScoreTemps, w \in ScoreWinds, p \in ScorePrecips}
    \cup
    {[fn |-> "fill_out_class", args |-> series, done |-> FALSE] :
        series \in [1..5 -> SeriesSamples]}
    \cup
    {[fn |-> "validate_date_any", args |-> <<month, day, year>>,
      done |-> FALSE] :
        month \in AnyMonths, day \in AnyDays, year \in AnyYears}
    \cup
    {[fn |-> "weather_api", args |-> failures, done |-> FALSE,
      attempts |-> 0, result |-> "pending"] :
        failures \in 0..MaxTransient}

InitPure ==
    /\ AppInit
    /\ probe \in PureCalls

Returned(result) ==
    /\ probe' = [fn |-> probe.fn, args |-> probe.args, done |-> TRUE,
                 result |-> result]
    /\ UNCHANGED appVars

CallValidateDate ==
    /\ probe.fn = "validate_date" /\ ~probe.done
    /\ Returned(validate_date(probe.args[1], probe.args[2], probe.args[3]))

CallWeatherRisk ==
    /\ probe.fn = "calculate_weather_risk" /\ ~probe.done
    /\ Returned(calculate_weather_risk(
           [max_temp |-> probe.args[1], max_wind |-> probe.args[2],
            sum_precip |-> probe.args[3]]))

CallSuitabilityScore ==
    /\ probe.fn = "calculate_weather_suitability_score" /\ ~probe.done
    /\ Returned(calculate_weather_suitability_score(
           [avg_temp |-> probe.args[1], max_wind |-> probe.args[2],
            sum_precip |-> probe.args[3]]))

CallValidateDateAny ==
    /\ probe.fn = "validate_date_any" /\ ~probe.done
    /\ Returned(validate_date_any(probe.args[1], probe.args[2], probe.args[3]))

\* fill_out_class on the series that get_data_for_date handed it
CallFillOutClass ==
    /\ probe.fn = "fill_out_class" /\ ~probe.done
    /\ Returned(Summarize(probe.args))

\* One attempt of openmeteo.weather_api(url, params) through the retrying
\* session, against an upstream that fails probe.args times before it
\* answers: the attempt is answered, or fails and is retried after the
\* backoff, or fails with the retries used up and the error is raised.
WeatherApiAttempt ==
    /\ probe.fn = "weather_api" /\ ~probe.done
    /\ LET failed == probe.attempts < probe.args
           retried == probe.attempts
       IN  probe' = [probe EXCEPT
                        !.attempts = @ + 1,
                        !.done = ~failed \/ RetryGivesUp(retried),
                        !.result = IF ~failed THEN "answered"
                                   ELSE IF RetryGivesUp(retried) THEN "error"
                                   ELSE "pending"]
    /\ UNCHANGED appVars

NextPure ==
    \/ CallValidateDate
    \/ CallWeatherRisk
    \/ CallSuitabilityScore
    \/ CallFillOutClass
    \/ CallValidateDateAny
    \/ WeatherApiAttempt

SpecPure == InitPure /\ [][NextPure]_vars

\* every call made runs on until it returns or raises
SpecPureFair == SpecPure /\ WF_vars(NextPure)

----------------------------------------------------------------------------
(* Claims about the pure functions, checked under SpecPure                 *)

Returns(fn) == probe.fn = fn /\ probe.done

C1_LeapYear(year) ==
    (year % 4 = 0 /\ year % 100 # 0) \/ year % 400 = 0

C1_LastDay(month, year) ==
    IF month \in {1, 3, 5, 7, 8, 10, 12} THEN 31
    ELSE IF month \in {4, 6, 9, 11} THEN 30
    ELSE IF C1_LeapYear(year) THEN 29
    ELSE 28

C1_WellFormed(month, day, year) ==
    /\ month \in 1..12
    /\ year \in 1940..2030
    /\ day \in 1..C1_LastDay(month, year)

\* C1: validate_date(month, day, year) returns True exactly when month is in
\* 1..12, year is in 1940..2030 and day is in 1..(last day of that month in
\* that year, February having 29 days in leap years); False otherwise.
C1_ValidateDateTable ==
    Returns("validate_date") =>
        (probe.result <=>
            C1_WellFormed(probe.args[1], probe.args[2], probe.args[3]))

\* validate_date was called on February 29 of a leap year and accepted it
C1_Witness ==
    /\ Returns("validate_date")
    /\ probe.args = <<2, 29, 2024>>
    /\ probe.result = TRUE

C2_Factors(max_temp, max_wind, sum_precip) ==
    (IF max_temp > 9000 THEN 2 ELSE IF max_temp > 8500 THEN 1 ELSE 0)
    + (IF max_wind > 2500 THEN 2 ELSE IF max_wind > 1500 THEN 1 ELSE 0)
    + (IF sum_precip > 100 THEN 2 ELSE IF sum_precip > 50 THEN 1 ELSE 0)

C2_Level(factors) ==
    IF factors >= 4 THEN
        [level |-> "High", description |-> "Consider indoor alternatives"]
    ELSE IF factors \in {2, 3} THEN
        [level |-> "Medium", description |-> "Have backup plans ready"]
    ELSE
        [level |-> "Low", description |-> "Good conditions expected"]

\* C2: the risk level is High / Medium / Low as risk_factors is >= 4, 2 or 3,
\* or less, where risk_factors adds 2 or 1 per quantity above its upper or
\* lower threshold, every comparison strict.
C2_RiskLevelTable ==
    Returns("calculate_weather_risk") =>
        probe.result =
            C2_Level(C2_Factors(probe.args[1], probe.args[2], probe.args[3]))

\* every quantity exactly on its upper threshold: each counts 1, none 2
C2_Witness ==
    /\ Returns("calculate_weather_risk")
    /\ probe.args = <<9000, 2500, 100>>
    /\ probe.result.level = "Medium"

C3_Deductions(avg_temp, max_wind, sum_precip) ==
    (IF avg_temp < 6000 \/ avg_temp > 9000 THEN 30
     ELSE IF avg_temp < 7000 \/ avg_temp > 8000 THEN 15 ELSE 0)
    + (IF max_wind > 2500 THEN 25
       ELSE IF max_wind > 1500 THEN 15
       ELSE IF max_wind > 1000 THEN 10 ELSE 0)
    + (IF sum_precip > 100 THEN 20
       ELSE IF sum_precip > 50 THEN 10
       ELSE IF sum_precip > 10 THEN 5 ELSE 0)

\* C3: the suitability score is 100 minus the temperature, wind and
\* precipitation deductions, and never below 0.
C3_SuitabilityScoreTable ==
    Returns("calculate_weather_suitability_score") =>
        LET d == C3_Deductions(probe.args[1], probe.args[2], probe.args[3])
        IN  probe.result = (IF 100 - d < 0 THEN 0 ELSE 100 - d)

\* avg_temp 55, max_wind 30, sum_precip 1.2: 100 - 30 - 25 - 20
C3_Witness ==
    /\ Returns("calculate_weather_suitability_score")
    /\ probe.args = <<5500, 3000, 120>>
    /\ probe.result = 25

C4_Values(series, column) == {series[i][column] : i \in 1..5}

C4_IsMin(v, series, column) ==
    v \in C4_Values(series, column) /\ \A w \in C4_Values(series, column) : v <= w

C4_IsMax(v, series, column) ==
    v \in C4_Values(series, column) /\ \A w \in C4_Values(series, column) : v >= w

C4_Total(series, column) ==
    series[1][column] + series[2][column] + series[3][column]
    + series[4][column] + series[5][column]

C4_WithGusts(series, gust) ==
    [i \in 1..5 |-> [series[i] EXCEPT !.wind_gusts_10m_max = gust]]

\* C4: each summary field is the stated reduction of the stated column of
\* the five samples, and no field depends on the wind-gust column.
C4_SummaryFields ==
    Returns("fill_out_class") =>
        LET series == probe.args
            r == probe.result
        IN  /\ 5 * r.avg_temp = C4_Total(series, "temperature_2m_mean")
            /\ C4_IsMin(r.min_temp, series, "temperature_2m_min")
            /\ C4_IsMax(r.max_temp, series, "temperature_2m_max")
            /\ 5 * r.avg_wind = C4_Total(series, "wind_speed_10m_max")
            /\ C4_IsMin(r.min_wind, series, "wind_speed_10m_max")
            /\ C4_IsMax(r.max_wind, series, "wind_speed_10m_max")
            /\ r.sum_precip = C4_Total(series, "precipitation_sum")
            /\ C4_IsMin(r.min_precip, series, "precipitation_sum")
            /\ C4_IsMax(r.max_precip, series, "precipitation_sum")
            /\ r = Summarize(C4_WithGusts(series, 0))

\* mean temperatures 70, 72, 74, 71, 73 summarised to avg_temp 72.0
C4_Witness ==
    /\ Returns("fill_out_class")
    /\ [i \in 1..5 |-> probe.args[i].temperature_2m_mean]
           = <<7000, 7200, 7400, 7100, 7300>>
    /\ probe.result.avg_temp = 7200

----------------------------------------------------------------------------
(* Claims about an analysis request, checked under Spec                    *)

\* the latest run was an analysis whose get_data_for_date returned a series
Assembled ==
    /\ last.kind = "analyze"
    /\ last.outcome \in {"AnalysisComplete", "PersistenceError"}

C5_FiveLookbackSamples ==
    /\ Len(last.data) = 5
    /\ {last.data[k].date.year : k \in 1..5}
           = (CurrentYear - 5)..(CurrentYear - 1)
    /\ \A k \in 1..5 :
          /\ last.data[k].date.month = last.target[1]
          /\ last.data[k].date.day = last.target[2]

SessionUntouched ==
    /\ analysis_complete' = analysis_complete
    /\ weather_data' = weather_data
    /\ metrics' = metrics

\* the kinds of failure of one iteration of the loop: the upstream request
\* failed, its response held no day, the date of that year does not exist
FetchFailures == {"FetchError", "IndexError", "ValueError"}

\* C6: a run in which one of the five per-year fetches failed computed no
\* summary, appended no row and left analysis_complete, weather_data and
\* metrics as they were.
C6_FetchFailureAborts ==
    [][(last'.kind = "analyze" /\ last'.outcome \in FetchFailures) =>
          /\ Len(last'.data) < 5
          /\ last'.summary = None
          /\ db' = db
          /\ SessionUntouched]_vars

\* a fetch of an analysis failed while the result of an earlier analysis,
\* stored as row 1, was on display
C6_Witness ==
    /\ last.kind = "analyze"
    /\ last.outcome = "FetchError"
    /\ last.calls # <<>>
    /\ ~last.calls[Len(last.calls)].ok
    /\ analysis_complete
    /\ Is(weather_data)
    /\ Len(db) = 1

\* C7 as stated: when insert_data fails after the summary was computed, the
\* session holds that summary and shows the analysis as complete.
C7_SummarySurvivesStoreFailure ==
    (last.kind = "analyze" /\ last.outcome = "PersistenceError") =>
        /\ analysis_complete
        /\ Is(weather_data)
        /\ Is(metrics)
        /\ The(weather_data).summary = The(last.summary)

\* C8: the handler calls the fetcher only for a date validate_date accepted,
\* and a run that rejected the date made no call of the fetcher for it, sent
\* nothing upstream, wrote no row and changed no session state.
C8_ValidationGatesFetch ==
    [][/\ (last'.kind = "analyze" /\ last'.calls # <<>>) =>
              /\ last'.valid
              /\ C1_WellFormed(last'.target[1], last'.target[2], last'.target[3])
       /\ (last'.kind = "analyze" /\ last'.outcome = "InvalidDate") =>
              /\ ~C1_WellFormed(last'.target[1], last'.target[2], last'.target[3])
              /\ last'.calls = <<>>
              /\ \A i \in DOMAIN last'.render_calls :
                    ~last'.render_calls[i].upstream
              /\ cache' = cache
              /\ db' = db
              /\ SessionUntouched]_vars

\* February 29, 2023 was rejected while an earlier analysis was on display
C8_Witness ==
    /\ last.kind = "analyze"
    /\ last.outcome = "InvalidDate"
    /\ last.target = <<2, 29, 2023>>
    /\ last.drawn
    /\ Len(last.render_calls) = 5

\* C9 as stated: an analysis requested through the search method after a
\* lookup that found nothing, and before a lookup that succeeds, does not
\* call the fetcher.
C9_NoFetchAfterFailedLookup ==
    (last.kind = "analyze" /\ last.method = "search" /\ lookup = "not_found")
        => last.calls = <<>>

\* C10 as stated: every response the loop took a sample from held exactly
\* one day; a response of zero or several days makes the fetch fail.
C10_ExactlyOneDay ==
    last.kind = "analyze" =>
        \A i \in DOMAIN last.calls :
            last.calls[i].days # 1 => i > Len(last.data)

----------------------------------------------------------------------------
(* Claims about the cache                                                  *)

\* every call_api call of a run: the handler's, then the redraw's
AllCalls(run) == run.calls \o run.render_calls

CallKey(call) == <<call.latlon, call.date.year, call.date.month, call.date.day>>

SentUpstream(run) ==
    {CallKey(AllCalls(run)[i]) :
        i \in {j \in DOMAIN AllCalls(run) : AllCalls(run)[j].upstream}}

\* C11 as stated, for two runs in a row: a request sent upstream in one run
\* is not sent upstream again in the next (the upstream is called at most
\* once per distinct key).
C11_UpstreamOncePerKey ==
    [][SentUpstream(last) \cap SentUpstream(last') = {}]_vars

\* the run assembled a series for the location, month and day on display
SameRequestAsDisplayed ==
    /\ last.drawn
    /\ last'.kind = "analyze"
    /\ Len(last'.data) = 5
    /\ last'.calls[1].latlon = The(metrics).latlon
    /\ last'.target[1] = The(metrics).month
    /\ last'.target[2] = The(metrics).day

\* C11 amended: a cached response never expires or changes, a request is
\* sent upstream only when its key is not cached, the redraw of an analysis
\* on display sends nothing upstream and reads the series the analysis
\* assembled, and so does a new analysis of the same location, month and day.
C11_CachedNeverRefetched ==
    [][/\ \A k \in DOMAIN cache : k \in DOMAIN cache' /\ cache'[k] = cache[k]
       /\ SentUpstream(last') \cap DOMAIN cache = {}
       /\ last'.drawn =>
             /\ \A i \in DOMAIN last'.render_calls :
                   ~last'.render_calls[i].upstream
             /\ Len(last'.render_data) = 5
             /\ last'.outcome = "AnalysisComplete" =>
                   last'.render_data = last'.data
             /\ (last.drawn /\ metrics' = metrics) =>
                   last'.render_data = last.render_data
       /\ SameRequestAsDisplayed =>
             /\ last'.data = last.render_data
             /\ SentUpstream(last') = {}]_vars

\* a second analysis of the location and date on display completed from
\* the cache and stored its own row
C11_Witness ==
    /\ last.kind = "analyze"
    /\ last.outcome = "AnalysisComplete"
    /\ Len(db) = 2
    /\ db[1].data = db[2].data
    /\ SentUpstream(last) = {}
    /\ last.render_data = last.data

----------------------------------------------------------------------------
(* Claims about one fetch                                                  *)

\* C12: a fetch makes at most 1 + 5 attempts and then ends: it is answered
\* when the upstream fails at most 5 times before answering, and raises an
\* error, instead of retrying on, when the failures use up the 5 retries.
C12_BoundedRetry ==
    /\ [](probe.fn = "weather_api" =>
            /\ probe.attempts <= 6
            /\ probe.attempts <= probe.args + 1
            /\ probe.done =>
                  /\ probe.result = "answered" <=> probe.args <= 5
                  /\ probe.result = "error" <=> probe.args > 5
                  /\ probe.result = "answered" => probe.attempts = probe.args + 1
                  /\ probe.result = "error" => probe.attempts = 6)
    /\ <>probe.done

\* four transient failures, then the fifth attempt was answered
C12_Witness ==
    /\ probe.fn = "weather_api"
    /\ probe.args = 4
    /\ probe.done
    /\ probe.result = "answered"
    /\ probe.attempts = 5

----------------------------------------------------------------------------
(* Further claims about the pure functions, checked under SpecPure         *)

\* C13: the suitability score is an integer from 0 to 100.
C13_ScoreRange ==
    Returns("calculate_weather_suitability_score") => probe.result \in 0..100

\* the ideal summary scored 100, the top of the range
C13_Witness ==
    /\ Returns("calculate_weather_suitability_score")
    /\ probe.args = <<7500, 500, 0>>
    /\ probe.result = 100

C14_IsInt(x) == x.type = "int"

\* C14 as stated: validate_date raises nothing, whatever it is given, and
\* returns True only when the three arguments are integers that form a
\* calendar date of the supported years.
C14_TrueOnlyForCalendarDates ==
    Returns("validate_date_any") =>
        /\ probe.result.value \in BOOLEAN
        /\ probe.result.value =>
              /\ \A i \in 1..3 : C14_IsInt(probe.args[i])
              /\ C1_WellFormed(probe.args[1].twice \div 2,
                               probe.args[2].twice \div 2,
                               probe.args[3].twice \div 2)

C15_Permutations ==
    {p \in [1..5 -> 1..5] : \A i, j \in 1..5 : p[i] = p[j] => i = j}

\* C15: the summary of a series is the summary of each of its reorderings.
C15_OrderInvariant ==
    Returns("fill_out_class") =>
        \A p \in C15_Permutations :
            Summarize([i \in 1..5 |-> probe.args[p[i]]]) = probe.result

\* a series of five different samples, not in year order, was summarised
C15_Witness ==
    /\ Returns("fill_out_class")
    /\ Cardinality({probe.args[i] : i \in 1..5}) = 5
    /\ probe.args[1].date.year = 2022
    /\ probe.args[5].date.year = 2020

----------------------------------------------------------------------------
(* February 29 as the target date, checked under Spec                      *)

\* an analysis of a valid February 29 that had coordinates to work with
C16_LeapDayAnalysis ==
    /\ last.kind = "analyze"
    /\ last.valid
    /\ last.target[1] = 2 /\ last.target[2] = 29
    /\ last.outcome # "MissingCoordinates"

\* every lookback year so far was answered with data, and not all five are
\* done: the aggregator went on to the next lookback year
C16_WentOnToNextYear ==
    /\ Len(last.calls) < 5
    /\ \A i \in DOMAIN last.calls : last.calls[i].ok /\ last.calls[i].days >= 1

C16_UnadjustedCall(call) == call.date.month = 2 /\ call.date.day = 29

\* C16 as stated: when a February 29 analysis comes to a lookback year that
\* is not a leap year, the fetcher is called for that year with the
\* unadjusted date, and the analysis fails with the upstream's error or
\* carries on with what the upstream returned.
C16_FetcherCalledForNonLeapYear ==
    (C16_LeapDayAnalysis /\ C16_WentOnToNextYear) =>
        /\ \E i \in DOMAIN last.calls :
              /\ ~isleap(last.calls[i].date.year)
              /\ C16_UnadjustedCall(last.calls[i])
        /\ last.outcome \in {"FetchError", "AnalysisComplete",
                             "PersistenceError"}

\* C16, amended: the aggregator does not adjust the day; the fetcher is
\* called with the unadjusted date for leap lookback years only; the first
\* lookback year that is not a leap year ends the analysis with a
\* ValueError raised before any fetch for that year; a February 29 analysis
\* never completes and leaves no summary.
C16_FailsBeforeFetch ==
    C16_LeapDayAnalysis =>
        /\ \A i \in DOMAIN last.calls :
              /\ C16_UnadjustedCall(last.calls[i])
              /\ isleap(last.calls[i].date.year)
        /\ last.outcome \in FetchFailures
        /\ C16_WentOnToNextYear => last.outcome = "ValueError"
        /\ last.summary = None

\* February 29 of 2024 asked for in 2025: 2024 was fetched and answered,
\* 2023 ended the analysis
C16_Witness ==
    /\ C16_LeapDayAnalysis
    /\ last.target = <<2, 29, 2024>>
    /\ last.outcome = "ValueError"
    /\ Len(last.calls) = 1
    /\ last.calls[1].date.year = 2024
    /\ last.calls[1].ok

----------------------------------------------------------------------------
(* The record store and the session flags, checked under Spec              *)

C17_Inserted == Is(last'.store) /\ ~The(last'.store).raised

C17_Failed == Is(last'.store) /\ The(last'.store).raised

\* C17: no step changes or removes a stored row; an insert that succeeds
\* adds exactly one row, with an id no stored row has, holding the summary of
\* this analysis, whether or not an equal row is stored already; an insert
\* that fails leaves the store as it was and the caller gets the error; the
\* database session is closed after either; nothing else writes the store.
C17_AppendOnly ==
    [][/\ Len(db') >= Len(db)
       /\ \A i \in DOMAIN db : db'[i] = db[i]
       /\ Is(last'.store) => The(last'.store).closed
       /\ C17_Inserted =>
             /\ Len(db') = Len(db) + 1
             /\ \A i \in DOMAIN db : db[i].id # db'[Len(db')].id
             /\ db'[Len(db')].data = The(metrics')
             /\ last'.outcome = "AnalysisComplete"
       /\ C17_Failed =>
             /\ db' = db
             /\ last'.outcome = "PersistenceError"
       /\ ~Is(last'.store) => db' = db]_vars

\* one analysis was stored, and the insert of the next one failed and was
\* rolled back
C17_Witness ==
    /\ Len(db) = 1
    /\ db[1].id = 1
    /\ last.outcome = "PersistenceError"
    /\ Is(last.store)
    /\ The(last.store).raised
    /\ The(last.store).closed

\* the results on display come from an analysis that is in the store
C18_DisplayedIsStored ==
    last.drawn =>
        /\ analysis_complete
        /\ weather_data = metrics
        /\ \E i \in DOMAIN db : db[i].data = The(metrics)

\* a step that puts new results into the session is an analysis whose five
\* fetches were answered and whose insert committed
C18_CompletedBySuccess ==
    (metrics' # metrics /\ Is(metrics')) =>
        /\ last'.kind = "analyze"
        /\ last'.outcome = "AnalysisComplete"
        /\ Len(last'.data) = 5
        /\ \A i \in DOMAIN last'.calls : last'.calls[i].ok
        /\ Is(last'.store) /\ ~The(last'.store).raised

\* C18: in every reachable state analysis_complete is True exactly when
\* weather_data and metrics are both set, and results are displayed only
\* for an analysis whose five fetches and store write succeeded.
C18_CompleteIffResults ==
    /\ [](analysis_complete <=> (Is(weather_data) /\ Is(metrics)))
    /\ [](Is(weather_data) <=> Is(metrics))
    /\ []C18_DisplayedIsStored
    /\ [][C18_CompletedBySuccess]_vars

\* after a stored analysis, "Start New Analysis" cleared all three
C18_Witness ==
    /\ last.kind = "reset"
    /\ ~analysis_complete
    /\ ~Is(weather_data)
    /\ ~Is(metrics)
    /\ Len(db) = 1

====
